---- MODULE Spec2Model ----
(***************************************************************************)
(* Model of VCSim/Vcs_oops.cpp: the File / Commit / Repository / VCS       *)
(* classes and the command loop of main.                                   *)
(*                                                                         *)
(* File objects live on the heap and are referred to by pointer; heap maps *)
(* each pointer in use to the object it points to.  The program frees no   *)
(* File while the command loop runs, so a new object never shares its      *)
(* pointer with an object that workingFiles or stagedFiles still refers    *)
(* to.  File contents are sequences of characters; NL is the newline.      *)
(***************************************************************************)
EXTENDS Integers, Sequences, FiniteSets, TLC

VARIABLES heap, workingFiles, stagedFiles, commits, nextCommitId,
          disk, archive, pc, last

vars == <<heap, workingFiles, stagedFiles, commits, nextCommitId,
          disk, archive, pc, last>>

\* ------------------------------------------------------------ bounds
\* Number of File objects in use: those the working set or the staging set
\* points to, and those a commit released from the staging set since the
\* last checkout.
MaxFiles == 2
\* Number of commits the History Store may hold.
MaxCommits == 2

\* ------------------------------------------------------------ inputs
\* File names, in the lexicographic order std::map iterates them in.
NameSeq == <<"a", "b">>
Names == {NameSeq[i] : i \in DOMAIN NameSeq}
NL == "\n"
\* What getline(cin, newContent) can return: one line, without a newline.
EditLines == {<<"x">>, <<"y">>}
\* fs::exists(fname) is false
Absent == <<"absent">>
\* Contents a file can have on disk before the program starts.
InitialDisk == {Absent, <<"x">>, <<"y", NL>>}
Answers == {"y", "n"}

\* ------------------------------------------------------------ helpers
Range(s) == {s[i] : i \in DOMAIN s}
EmptyMap == [x \in {} |-> <<>>]
\* m with key k set to v, like std::map::operator[] followed by assignment
MapPut(m, k, v) == [x \in (DOMAIN m) \cup {k} |-> IF x = k THEN v ELSE m[x]]
\* index of the first element of s from position i on that equals e, or 0
RECURSIVE IndexFrom(_, _, _)
IndexFrom(s, e, i) ==
    IF i > Len(s) THEN 0
    ELSE IF s[i] = e THEN i
    ELSE IndexFrom(s, e, i + 1)

\* the map m restricted to the keys in S
Restrict(m, S) == [x \in (DOMAIN m) \cap S |-> m[x]]

\* new TextFile(...): a pointer no object in use has
NewPtr(h) ==
    CHOOSE p \in 1..(Cardinality(DOMAIN h) + 1) :
        /\ p \notin DOMAIN h
        /\ \A q \in 1..(p - 1) : q \in DOMAIN h

\* checkout that merges into the working set instead of replacing it
ClearWorking_Keep(wf) == wf

\* workingFiles.clear() drops the pointers without deleting the objects
ClearWorking(wf) == <<>>

\* An object that neither workingFiles nor stagedFiles points to is leaked:
\* no statement can reach it again, and the model forgets it.
Leak(h, wf, staged) == Restrict(h, Range(wf) \cup Range(staged))

\* ------------------------------------------------------------ class File
TextFile(n, c) ==
    [name |-> n, content |-> c, stagedContent |-> c, modified |-> FALSE]

\* an edit that derives the dirty flag by comparing with the committed content
updateContent_Compare(f, c) ==
    [f EXCEPT !.stagedContent = c, !.modified = (c # f.content)]

\* File::updateContent
updateContent(f, c) ==
    [f EXCEPT !.stagedContent = c, !.modified = TRUE]

\* clearModified that forgets to take over the staged content
clearModified_NoCopy(f) ==
    [f EXCEPT !.modified = FALSE]

\* clearModified that takes over the content but leaves the flag set
clearModified_KeepDirty(f) ==
    [f EXCEPT !.content = f.stagedContent]

clearModified(f) ==
    [f EXCEPT !.modified = FALSE, !.content = f.stagedContent]

\* the implicit copy constructor used by TextFile::clone
clone(f) ==
    [name |-> f.name, content |-> f.content,
     stagedContent |-> f.stagedContent, modified |-> f.modified]

\* ofstream out(name); out << content;
saveToDisk(f, d) == [d EXCEPT ![f.name] = f.content]

\* while (getline(in, line)) content += line + "\n";
RECURSIVE ReadLines(_)
ReadLines(s) ==
    IF s = <<>> THEN <<>>
    ELSE LET i == IndexFrom(s, NL, 1)
         IN  IF i = 0 THEN s \o <<NL>>
             ELSE SubSeq(s, 1, i - 1) \o <<NL>> \o ReadLines(SubSeq(s, i + 1, Len(s)))

\* File::loadFromDisk, for a file that exists
loadFromDisk(fname, d) == TextFile(fname, ReadLines(d[fname]))

\* ------------------------------------------------------------ class Commit
\* for (File* f : staged) files[f->getName()] = unique_ptr<File>(f->clone());
RECURSIVE CommitFiles(_, _, _)
CommitFiles(h, staged, files) ==
    IF staged = <<>> THEN files
    ELSE CommitFiles(h, Tail(staged),
                     MapPut(files, h[Head(staged)].name, clone(h[Head(staged)])))

\* a commit numbered with ++nextCommitId instead of nextCommitId++
NewCommit_PreIncrement(i, h, staged) ==
    [id |-> i + 1, files |-> CommitFiles(h, staged, EmptyMap)]

NewCommit(i, h, staged) == [id |-> i, files |-> CommitFiles(h, staged, EmptyMap)]

\* Commit::getSnapshot: a fresh clone per entry, keyed by name
getSnapshot(c) == [n \in DOMAIN c.files |-> clone(c.files[n])]

\* the keys of a map in iteration order
KeysInOrder(m) == SelectSeq(NameSeq, LAMBDA n : n \in DOMAIN m)

\* ------------------------------------------------------------ class Repository
\* Repository::addFile
addFile(staged, p) ==
    IF p \notin Range(staged) THEN Append(staged, p) ELSE staged

\* commit that takes every staged file, modified or not
editableFiles_All(h, staged) == staged

\* the files commit selects: staged files with isModified()
editableFiles(h, staged) == SelectSeq(staged, LAMBDA p : h[p].modified)

\* a commit step that archives and saves the staged content but does not
\* apply it to the File, so that the commit clones a dirty File
CommitOne_NoClear(st, p) ==
    LET f == st.heap[p]
    IN  [heap |-> st.heap,
         dir  |-> MapPut(st.dir, f.name, f.stagedContent),
         disk |-> saveToDisk(clearModified(f), st.disk)]

\* a commit step that archives the committed content, not the staged one
CommitOne_ArchiveOld(st, p) ==
    LET f  == st.heap[p]
        f2 == clearModified(f)
    IN  [heap |-> [st.heap EXCEPT ![p] = f2],
         dir  |-> MapPut(st.dir, f.name, f.content),
         disk |-> saveToDisk(f2, st.disk)]

\* the loop of commit over editableFiles; st = [heap, disk, dir]
CommitOne(st, p) ==
    LET f  == st.heap[p]
        f2 == clearModified(f)
    IN  [heap |-> [st.heap EXCEPT ![p] = f2],
         dir  |-> MapPut(st.dir, f.name, f.stagedContent),
         disk |-> saveToDisk(f2, st.disk)]

RECURSIVE CommitLoop(_, _)
CommitLoop(st, files) ==
    IF files = <<>> THEN st
    ELSE CommitLoop(CommitOne(st, Head(files)), Tail(files))

\* a commit that empties the staging set
Unstage_Clear(staged, files) == <<>>

\* stagedFiles.erase(remove(..., f), ...) for every f of editableFiles
Unstage(staged, files) == SelectSeq(staged, LAMBDA p : p \notin Range(files))

\* the names of the files of the working set
WorkingNames(h, wf) == {h[wf[k]].name : k \in DOMAIN wf}

\* a lookup that falls back to the newest commit when the id is unknown
FindCommit_Newest(cs, id, i) ==
    IF \E k \in i..Len(cs) : cs[k].id = id
    THEN CHOOSE k \in i..Len(cs) :
            cs[k].id = id /\ \A j \in i..(k - 1) : cs[j].id # id
    ELSE Len(cs)

\* the first commit with the given id, or 0
RECURSIVE FindCommit(_, _, _)
FindCommit(cs, id, i) ==
    IF i > Len(cs) THEN 0
    ELSE IF cs[i].id = id THEN i
    ELSE FindCommit(cs, id, i + 1)

\* ------------------------------------------------------------ state
\* last records the command that ran last: op, whether it took effect (ok),
\* its argument (a file name or a commit id) and, for checkout, the names of
\* the working set it found (names).
Init ==
    /\ heap = EmptyMap
    /\ workingFiles = <<>>
    /\ stagedFiles = <<>>
    /\ commits = <<>>
    /\ nextCommitId = 1
    /\ disk \in [Names -> InitialDisk]
    /\ archive = EmptyMap
    /\ pc = "running"
    /\ last = [op |-> "start", ok |-> TRUE, arg |-> 0, names |-> {}]

\* an edit that relies on add to have staged the file
EditFile_NoStage(h, staged, p, c) ==
    [heap |-> [h EXCEPT ![p] = updateContent(h[p], c)],
     staged |-> staged]

\* VCS::editFile on the heap object p
EditFile(h, staged, p, c) ==
    [heap |-> [h EXCEPT ![p] = updateContent(h[p], c)],
     staged |-> addFile(staged, p)]

\* runCommand("add <fname>"), the file exists on disk
AddExisting(fname) ==
    /\ pc = "running"
    /\ Cardinality(DOMAIN heap) < MaxFiles
    /\ disk[fname] # Absent
    /\ LET p == NewPtr(heap)
       IN  /\ heap' = MapPut(heap, p, loadFromDisk(fname, disk))
           /\ workingFiles' = IF p \notin Range(workingFiles)
                              THEN Append(workingFiles, p) ELSE workingFiles
           /\ stagedFiles' = addFile(stagedFiles, p)
           /\ last' = [op |-> "add", ok |-> TRUE, arg |-> fname, names |-> {}]
    /\ UNCHANGED <<commits, nextCommitId, disk, archive, pc>>

\* runCommand("add <fname>"), the file does not exist: "Create new? (y/n)"
AddMissing(fname, create, editNow, c) ==
    /\ pc = "running"
    /\ Cardinality(DOMAIN heap) < MaxFiles
    /\ disk[fname] = Absent
    /\ IF create = "y"
       THEN LET p  == NewPtr(heap)
                h1 == MapPut(heap, p, TextFile(fname, <<>>))
                e  == IF editNow = "y"
                      THEN EditFile(h1, stagedFiles, p, c)
                      ELSE [heap |-> h1, staged |-> stagedFiles]
            IN  /\ heap' = e.heap
                /\ disk' = [disk EXCEPT ![fname] = <<>>]
                /\ workingFiles' = IF p \notin Range(workingFiles)
                                   THEN Append(workingFiles, p) ELSE workingFiles
                /\ stagedFiles' = addFile(e.staged, p)
                /\ last' = [op |-> "add", ok |-> TRUE, arg |-> fname, names |-> {}]
       ELSE /\ UNCHANGED <<heap, disk, workingFiles, stagedFiles>>
            /\ last' = [op |-> "add", ok |-> FALSE, arg |-> fname, names |-> {}]
    /\ UNCHANGED <<commits, nextCommitId, archive, pc>>

\* the first working file with the given name, or 0
RECURSIVE FindWorking(_, _, _, _)
FindWorking(h, wf, fname, i) ==
    IF i > Len(wf) THEN 0
    ELSE IF h[wf[i]].name = fname THEN wf[i]
    ELSE FindWorking(h, wf, fname, i + 1)

\* runCommand("edit <fname>")
Edit(fname, c) ==
    /\ pc = "running"
    /\ LET p == FindWorking(heap, workingFiles, fname, 1)
       IN  IF p # 0
           THEN LET e == EditFile(heap, stagedFiles, p, c)
                IN  /\ heap' = e.heap
                    /\ stagedFiles' = e.staged
                    /\ last' = [op |-> "edit", ok |-> TRUE, arg |-> fname, names |-> {}]
           ELSE /\ UNCHANGED <<heap, stagedFiles>>
                /\ last' = [op |-> "edit", ok |-> FALSE, arg |-> fname, names |-> {}]
    /\ UNCHANGED <<workingFiles, commits, nextCommitId, disk, archive, pc>>

\* runCommand("commit <msg>") -> Repository::commit
Commit ==
    /\ pc = "running"
    /\ LET ef == editableFiles(heap, stagedFiles)
       IN  IF ef = <<>>
           THEN /\ UNCHANGED <<heap, stagedFiles, commits, nextCommitId, disk, archive>>
                /\ last' = [op |-> "commit", ok |-> FALSE, arg |-> 0, names |-> {}]
           ELSE LET dir0 == IF nextCommitId \in DOMAIN archive
                            THEN archive[nextCommitId] ELSE EmptyMap
                    st   == CommitLoop([heap |-> heap, disk |-> disk, dir |-> dir0], ef)
                IN  /\ Len(commits) < MaxCommits
                    /\ heap' = st.heap
                    /\ disk' = st.disk
                    /\ archive' = MapPut(archive, nextCommitId, st.dir)
                    /\ commits' = Append(commits, NewCommit(nextCommitId, st.heap, ef))
                    /\ nextCommitId' = nextCommitId + 1
                    /\ stagedFiles' = Unstage(stagedFiles, ef)
                    /\ last' = [op |-> "commit", ok |-> TRUE, arg |-> 0, names |-> {}]
    /\ UNCHANGED <<workingFiles, pc>>

\* a checkout that restores the working set and leaves the disk alone
RECURSIVE RestoreLoop_NoSave(_, _, _)
RestoreLoop_NoSave(st, snapshot, keys) ==
    IF keys = <<>> THEN st
    ELSE LET f == snapshot[Head(keys)]
             p == NewPtr(st.heap)
         IN  RestoreLoop_NoSave([heap |-> MapPut(st.heap, p, f),
                                 wf   |-> Append(st.wf, p),
                                 disk |-> st.disk],
                                snapshot, Tail(keys))

\* the loop of checkout over the snapshot; st = [heap, wf, disk]
RECURSIVE RestoreLoop(_, _, _)
RestoreLoop(st, snapshot, keys) ==
    IF keys = <<>> THEN st
    ELSE LET f == snapshot[Head(keys)]
             p == NewPtr(st.heap)
         IN  RestoreLoop([heap |-> MapPut(st.heap, p, f),
                          wf   |-> Append(st.wf, p),
                          disk |-> [st.disk EXCEPT ![f.name] = f.content]],
                         snapshot, Tail(keys))

\* runCommand("checkout <id>") -> Repository::checkout
Checkout(commitId) ==
    /\ pc = "running"
    /\ LET i == FindCommit(commits, commitId, 1)
       IN  IF i # 0
           THEN LET snapshot == getSnapshot(commits[i])
                    wf0 == ClearWorking(workingFiles)
                    st == RestoreLoop([heap |-> Leak(heap, wf0, stagedFiles),
                                       wf |-> wf0, disk |-> disk],
                                      snapshot, KeysInOrder(snapshot))
                IN  /\ Cardinality(DOMAIN st.heap) <= MaxFiles
                    /\ heap' = st.heap
                    /\ workingFiles' = st.wf
                    /\ disk' = st.disk
                    /\ last' = [op |-> "checkout", ok |-> TRUE, arg |-> commitId, names |-> WorkingNames(heap, workingFiles)]
           ELSE /\ UNCHANGED <<heap, workingFiles, disk>>
                /\ last' = [op |-> "checkout", ok |-> FALSE, arg |-> commitId, names |-> WorkingNames(heap, workingFiles)]
    /\ UNCHANGED <<stagedFiles, commits, nextCommitId, archive, pc>>

\* "exit": main returns, ~VCS runs Repository::cleanup and the process ends;
\* what was in memory is gone, what is on disk stays
Exit ==
    /\ pc = "running"
    /\ pc' = "exited"
    /\ archive' = EmptyMap
    /\ heap' = EmptyMap
    /\ workingFiles' = <<>>
    /\ stagedFiles' = <<>>
    /\ commits' = <<>>
    /\ last' = [op |-> "exit", ok |-> TRUE, arg |-> 0, names |-> {}]
    /\ UNCHANGED <<nextCommitId, disk>>

Next ==
    \/ \E n \in Names : AddExisting(n)
    \/ \E n \in Names, a \in Answers, b \in Answers, c \in EditLines : AddMissing(n, a, b, c)
    \/ \E n \in Names, c \in EditLines : Edit(n, c)
    \/ Commit
    \/ \E id \in 0..(MaxCommits + 1) : Checkout(id)
    \/ Exit

Spec == Init /\ [][Next]_vars

\* ------------------------------------------------------------ properties
CommitIds == {commits[i].id : i \in DOMAIN commits}
JustCommitted == last'.op = "commit" /\ last'.ok
JustCheckedOut == last'.op = "checkout" /\ last'.ok
\* D: the dirty staged files a commit issued now would select
D == editableFiles(heap, stagedFiles)
\* the last file of the sequence files that has the given name
LastNamed(h, files, n) ==
    files[CHOOSE k \in DOMAIN files :
            /\ h[files[k]].name = n
            /\ \A j \in DOMAIN files : h[files[j]].name = n => j <= k]
\* what reading commit c's snapshot for file n returns
SnapshotContent(c, n) == getSnapshot(c)[n].content

\* C1 (freeze): the content a commit holds for a file name is the content
\* staged for that name when the commit was created (with several dirty
\* staged files of one name, that of the last of them), and no later add,
\* edit, commit or checkout changes what reading the commit's snapshot returns.
C1_Freeze ==
    [][pc' = "running" =>
        /\ \A i \in DOMAIN commits :
              /\ i \in DOMAIN commits'
              /\ DOMAIN commits'[i].files = DOMAIN commits[i].files
              /\ \A n \in DOMAIN commits[i].files :
                    SnapshotContent(commits'[i], n) = SnapshotContent(commits[i], n)
        /\ JustCommitted =>
              LET c == commits'[Len(commits')]
              IN  \A n \in DOMAIN c.files :
                     SnapshotContent(c, n) = heap[LastNamed(heap, D, n)].stagedContent
      ]_vars

\* a working file was edited after a commit froze other content for its name
C1_Witness ==
    /\ last.op = "edit" /\ last.ok
    /\ \E i \in DOMAIN commits, k \in DOMAIN workingFiles :
          LET f == heap[workingFiles[k]]
          IN  /\ f.name = last.arg
              /\ f.name \in DOMAIN commits[i].files
              /\ f.modified
              /\ f.stagedContent # SnapshotContent(commits[i], f.name)

\* C2 (no-op commit): a commit issued when no File object is dirty leaves the
\* History Store length and the id counter as they were.
C2_NoOpCommit ==
    [][(last'.op = "commit" /\ \A p \in DOMAIN heap : ~heap[p].modified) =>
          /\ Len(commits') = Len(commits)
          /\ nextCommitId' = nextCommitId
          /\ ~last'.ok
      ]_vars

\* a commit was a no-op although files were staged and the history not empty
C2_Witness ==
    /\ last.op = "commit" /\ ~last.ok
    /\ stagedFiles # <<>>
    /\ commits # <<>>

\* C3 (id monotonicity): the History Store holds ids 1..n in append order and
\* the next id is n+1.
C3_IdMonotonic ==
    pc = "running" =>
        /\ \A i \in DOMAIN commits : commits[i].id = i
        /\ nextCommitId = Len(commits) + 1

\* a second commit was just appended
C3_Witness ==
    /\ last.op = "commit" /\ last.ok
    /\ Len(commits) >= 2

\* C4 (checkout round-trip): after a successful checkout of commit C the
\* working set holds exactly one file per name of C's snapshot set, each with
\* C's content for that name, and no file of any other name.
C4_CheckoutRoundTrip ==
    [][JustCheckedOut =>
          LET c == commits[FindCommit(commits, last'.arg, 1)]
          IN  /\ WorkingNames(heap', workingFiles') = DOMAIN c.files
              /\ Len(workingFiles') = Cardinality(DOMAIN c.files)
              /\ \A k \in DOMAIN workingFiles' :
                    LET f == heap'[workingFiles'[k]]
                    IN  f.content = SnapshotContent(c, f.name)
      ]_vars

\* a checkout dropped a working file whose name the commit does not hold
C4_Witness ==
    /\ last.op = "checkout" /\ last.ok
    /\ \E n \in last.names : n \notin WorkingNames(heap, workingFiles)
    /\ workingFiles # <<>>

\* C5 (dirty clears on commit): right after a successful commit every file it
\* included is clean and its committed content is what was staged for it.
C5_DirtyClears ==
    [][JustCommitted =>
          \A p \in Range(D) :
              /\ ~heap'[p].modified
              /\ heap'[p].content = heap[p].stagedContent
      ]_vars

\* a commit just cleared a working file whose content came from an edit
C5_Witness ==
    /\ last.op = "commit" /\ last.ok
    /\ \E k \in DOMAIN workingFiles :
          LET f == heap[workingFiles[k]]
          IN  /\ ~f.modified
              /\ workingFiles[k] \notin Range(stagedFiles)
              /\ f.content \in EditLines
              /\ f.content = commits[Len(commits)].files[f.name].content

\* the number of entries of the staging set for files named n
StagedEntries(h, staged, n) ==
    Cardinality({k \in DOMAIN staged : h[staged[k]].name = n})

\* C6 (idempotent add): after the add command for a file name, also when it
\* was issued before, the staging set holds exactly one entry for that name.
C6_IdempotentAdd ==
    [][(last'.op = "add" /\ last'.ok) =>
          StagedEntries(heap', stagedFiles', last'.arg) = 1
      ]_vars

\* C7 (checkout discards uncommitted edits): after a successful checkout of
\* commit K a file of the former working set that was edited without a commit
\* has reverted to K's content, and its edit is no longer pending, that is,
\* the edited file is not staged and dirty.
C7_CheckoutDiscardsStaged ==
    [][JustCheckedOut =>
          LET c == commits[FindCommit(commits, last'.arg, 1)]
          IN  \A p \in Range(workingFiles) :
                 heap[p].modified =>
                     /\ \A k \in DOMAIN workingFiles' :
                           LET f == heap'[workingFiles'[k]]
                           IN  f.name = heap[p].name =>
                                  /\ f.content = SnapshotContent(c, f.name)
                                  /\ f.stagedContent = SnapshotContent(c, f.name)
                     /\ ~(p \in Range(stagedFiles') /\ heap'[p].modified)
      ]_vars

\* C8 (failed operations): a checkout of an id that is not in the History
\* Store and an edit of a name that is not in the working set are reported
\* as not found and change nothing; the command loop goes on.
C8_FailedOpsChangeNothing ==
    [][( \/ (last'.op = "checkout" /\ last'.arg \notin CommitIds)
         \/ (last'.op = "edit" /\ last'.arg \notin WorkingNames(heap, workingFiles)) ) =>
          /\ ~last'.ok
          /\ UNCHANGED <<heap, workingFiles, stagedFiles, commits, nextCommitId,
                         disk, archive, pc>>
          /\ pc' = "running"
      ]_vars

\* a checkout failed in a state with history, working files and staged files
C8_Witness ==
    /\ last.op = "checkout" /\ ~last.ok
    /\ commits # <<>>
    /\ workingFiles # <<>>
    /\ stagedFiles # <<>>

\* C9 (archive mirror): while the program runs, the archive holds one
\* directory per commit id of the History Store and no other, and each
\* directory holds exactly the commit's file names with the commit's content.
C9_ArchiveMirror ==
    pc = "running" =>
        /\ DOMAIN archive = CommitIds
        /\ \A i \in DOMAIN commits :
              LET c == commits[i]
              IN  /\ DOMAIN archive[c.id] = DOMAIN c.files
                  /\ \A n \in DOMAIN c.files :
                        archive[c.id][n] = SnapshotContent(c, n)

\* two commits are archived, one of them holding two files
C9_Witness ==
    /\ pc = "running"
    /\ Len(commits) >= 2
    /\ \E i \in DOMAIN commits : Cardinality(DOMAIN commits[i].files) = 2

\* C10 (a commit contributes exactly the dirty staged files): the new commit
\* has one snapshot per file of D, holding that file's staged content, none
\* for any other file, and D is not empty.
C10_ExactlyDirtyStaged ==
    [][JustCommitted =>
          LET c == commits'[Len(commits')]
          IN  /\ D # <<>>
              /\ Cardinality(DOMAIN c.files) = Len(D)
              /\ DOMAIN c.files = {heap[D[k]].name : k \in DOMAIN D}
              /\ \A k \in DOMAIN D :
                    SnapshotContent(c, heap[D[k]].name) = heap[D[k]].stagedContent
      ]_vars

NamePos(n) == CHOOSE i \in DOMAIN NameSeq : NameSeq[i] = n

\* C12 (commit order by name): a commit takes the files of D in the order of
\* their names; the commit loop takes D from its head, so of two files of D
\* the one with the smaller name comes first, however they were added or
\* edited.
C12_CommitOrderByName ==
    [][JustCommitted =>
          \A i, j \in DOMAIN D :
              NamePos(heap[D[i]].name) < NamePos(heap[D[j]].name) => i < j
      ]_vars

\* C13 (names are a key of the working set): no two entries of the working
\* set have the same name.
C13_UniqueWorkingNames ==
    \A i, j \in DOMAIN workingFiles :
        heap[workingFiles[i]].name = heap[workingFiles[j]].name => i = j

\* C14 (edit): the edit command for a name of the working set, with new
\* content c, sets the file's staged content to c and its dirty flag to true,
\* also when c is the content the file already has, and the file is in the
\* staging set afterwards; the file's committed content, the disk, the History
\* Store, the id counter, the archive, the working set and every other File
\* are as before.
C14_EditStages ==
    [][\A n \in Names, c \in EditLines :
          (Edit(n, c) /\ n \in WorkingNames(heap, workingFiles)) =>
              LET p == FindWorking(heap, workingFiles, n, 1)
              IN  /\ last'.ok
                  /\ heap'[p].stagedContent = c
                  /\ heap'[p].modified
                  /\ p \in Range(stagedFiles')
                  /\ heap'[p].content = heap[p].content
                  /\ heap'[p].name = heap[p].name
                  /\ DOMAIN heap' = DOMAIN heap
                  /\ \A q \in DOMAIN heap \ {p} : heap'[q] = heap[q]
                  /\ UNCHANGED <<workingFiles, disk, commits, nextCommitId, archive>>
      ]_vars

\* a clean, unstaged file was edited to the content it already had
C14_Witness ==
    /\ last.op = "edit" /\ last.ok
    /\ commits # <<>>
    /\ \E k \in DOMAIN workingFiles :
          LET f == heap[workingFiles[k]]
          IN  /\ f.name = last.arg
              /\ f.modified
              /\ f.stagedContent = f.content
              /\ f.content = disk[f.name]
              /\ workingFiles[k] \in Range(stagedFiles)

\* C15 (checkout and the disk): after a successful checkout of commit K the
\* disk holds K's snapshot content under every name of K's snapshot set and
\* what it held before under every other name; the History Store, the id
\* counter and the archive are as before.
C15_CheckoutWritesSnapshot ==
    [][JustCheckedOut =>
          LET c == commits[FindCommit(commits, last'.arg, 1)]
          IN  /\ \A n \in Names :
                    disk'[n] = IF n \in DOMAIN c.files
                               THEN SnapshotContent(c, n) ELSE disk[n]
              /\ UNCHANGED <<commits, nextCommitId, archive>>
      ]_vars

\* a checkout of the first commit wrote back content that the second commit
\* had replaced, next to a file on disk that the first commit does not hold
C15_Witness ==
    /\ last.op = "checkout" /\ last.ok /\ last.arg = 1
    /\ Len(commits) = 2
    /\ \E n \in DOMAIN commits[1].files :
          /\ n \in DOMAIN commits[2].files
          /\ commits[2].files[n].content # commits[1].files[n].content
          /\ disk[n] = commits[1].files[n].content
    /\ \E n \in Names : n \notin DOMAIN commits[1].files /\ disk[n] # Absent

\* C16 (checkout restores clean files): every file a successful checkout of
\* commit K puts in the working set has committed content and staged content
\* equal to K's snapshot content for its name, and is not dirty.
C16_RestoredFilesClean ==
    [][JustCheckedOut =>
          LET c == commits[FindCommit(commits, last'.arg, 1)]
          IN  \A k \in DOMAIN workingFiles' :
                 LET f == heap'[workingFiles'[k]]
                 IN  /\ f.content = SnapshotContent(c, f.name)
                     /\ f.stagedContent = SnapshotContent(c, f.name)
                     /\ ~f.modified
      ]_vars

\* a checkout of the first commit restored a file, in the content an edit
\* gave it before that commit, which the second commit holds in other content
C16_Witness ==
    /\ last.op = "checkout" /\ last.ok /\ last.arg = 1
    /\ Len(commits) = 2
    /\ \E k \in DOMAIN workingFiles :
          LET f == heap[workingFiles[k]]
          IN  /\ f.content \in EditLines
              /\ f.stagedContent = f.content
              /\ ~f.modified
              /\ f.name \in DOMAIN commits[2].files
              /\ commits[2].files[f.name].content # f.content

\* C17 (staged files are working files): every file of the staging set is a
\* member of the working set.
C17_StagedSubsetWorking ==
    Range(stagedFiles) \subseteq Range(workingFiles)

\* C18 (no edit is lost before a commit): every file of the working set that
\* is dirty is in the staging set.
C18_DirtyWorkingStaged ==
    \A k \in DOMAIN workingFiles :
        heap[workingFiles[k]].modified => workingFiles[k] \in Range(stagedFiles)

\* a file that a commit had taken out of the staging set, or that a checkout
\* had restored from the first commit, was edited again: it is dirty and
\* staged, and holds the first commit's content, not the second's
C18_Witness ==
    /\ last.op = "edit" /\ last.ok
    /\ Len(commits) = 2
    /\ \E k \in DOMAIN workingFiles :
          LET p == workingFiles[k]
              n == heap[p].name
          IN  /\ n = last.arg
              /\ heap[p].modified
              /\ p \in Range(stagedFiles)
              /\ n \in DOMAIN commits[1].files
              /\ n \in DOMAIN commits[2].files
              /\ heap[p].content = commits[1].files[n].content
              /\ heap[p].content # commits[2].files[n].content

\* C19 (disk agrees with the working set): right after a successful commit or
\* a successful checkout, the disk holds under the name of every file of the
\* working set that file's committed content.
C19_DiskAgreesWithWorking ==
    [][(JustCommitted \/ JustCheckedOut) =>
          \A k \in DOMAIN workingFiles' :
              LET f == heap'[workingFiles'[k]]
              IN  disk'[f.name] = f.content
      ]_vars

====
